---------------------------- MODULE Spec2Model ----------------------------
(***************************************************************************)
(* State-machine model of blender_audio_fft_v17.py: the capture worker     *)
(* (_safe_audio_loop), the cleanup routine (_cleanup_audio), the start /   *)
(* stop / modal operators and unregister, over the module globals _pa,     *)
(* _stream, _running, _audio_thread, _fft_data and _audio_lock.            *)
(*                                                                         *)
(* Threads are numbered: 0 is Blender's main thread (operators, modal      *)
(* timer, panel, unregister), 1..MaxWorkers are the capture threads in the *)
(* order AUDIOFFT_OT_Start.execute spawns them.  A PyAudio instance and a  *)
(* stream carry the number of the worker that created them; 0 is None.     *)
(* Spectrum values are integers scaled by Scale (Scale stands for 1.0).    *)
(* Every call into PyAudio may raise; the raise is a nondeterministic      *)
(* branch of the step that makes the call.                                 *)
(*                                                                         *)
(* Spec and FairSpec are the interleaving model.  BlockSpec, DeviceSpec,   *)
(* IndexSpec and SnapshotSpec each run one stage (one block from analysis  *)
(* to publish, device selection, index generation, the consumers' copies)  *)
(* from every input of a bounded set.                                      *)
(***************************************************************************)
EXTENDS Integers, Sequences, FiniteSets, TLC

\* ---------------------------------------------------------------- bounds
MaxWorkers == 2
NBins == 2
Scale == 1
MaxTime == 1

Main == 0
Workers == 1..MaxWorkers
Threads == 0..MaxWorkers
None == 0
Bins == 1..NBins
Times == 1..MaxTime

VARIABLES
    deps,           \* DEPS_AVAILABLE
    registered,     \* the add-on's classes are registered
    running,        \* _running
    pa,             \* _pa: None or the instance a worker created
    stream,         \* _stream: None or the stream a worker opened
    audio_thread,   \* _audio_thread: number of the last thread spawned
    fft_data,       \* _fft_data
    lock,           \* _audio_lock: Free, or the thread holding it
    paState,        \* each PyAudio instance: "none", "live", "terminated"
    stState,        \* each stream: "none", "stopped", "active", "closed"
    stParent,       \* each stream: the PyAudio instance that opened it
    pc,             \* each thread's position in its code
    binned,         \* each worker's local `binned`
    idx,            \* each worker's loop index i of the smoothing loop
    start_result,   \* what the execute() that spawned the worker returned
    current_fft,    \* the main thread's local copy `current_fft`
    scene_bins,     \* scene["fft_bin_i"]
    scene_ts,       \* scene["fft_timestamp"]
    published,      \* the vector as the last completed `with` block left it
    devices,        \* the device table PyAudio reports to _find_audio_device
    device_index,   \* the local `device_index` of _safe_audio_loop
    spectrum,       \* the local `spectrum` of _safe_audio_loop
    log_indices     \* the local `log_indices` of _safe_audio_loop

\* The inputs and intermediate values of the worker's pure stages (device
\* selection, index generation, analysis).  The interleaving model draws
\* the outcome of a stage inside the step that runs it and leaves these
\* variables alone; the single-stage specifications below drive them.
stageVars == <<devices, device_index, spectrum, log_indices>>

vars == <<deps, stageVars, registered, running, pa, stream, audio_thread, fft_data, lock,
          paState, stState, stParent, pc, binned, idx,
          start_result, current_fft, scene_bins, scene_ts,
          published>>

hostVars == <<deps, stageVars, registered, audio_thread, start_result, current_fft,
              scene_bins, scene_ts>>
audioVars == <<pa, stream, paState, stState, stParent>>
localVars == <<binned, idx>>
vecVars == <<fft_data, lock, published>>

Zeros == [i \in Bins |-> 0]
Free == -1

\* ------------------------------------------------------- pure functions

\* any(_fft_data)
AnyNonZero(v) == \E i \in Bins : v[i] # 0

\* Variant with the two weights exchanged.
SmoothSwapped(new, old) == (7 * new + 3 * old) \div 10

\* alpha * binned[i] + (1 - alpha) * _fft_data[i], alpha = 0.3, on integers
\* scaled by Scale
Smooth(new, old) == (3 * new + 7 * old) \div 10

\* The vectors lines 126-145 can produce: all zero (max_val = 0), or
\* normalised so that the largest bin is 1.0.
AnalysedVectors == [Bins -> {0, Scale}]

\* Device names are sequences of characters.
NamePulse == <<"P", "u", "l", "s", "e">>
NamePipewire == <<"p", "i", "p", "e", "w", "i", "r", "e">>
NameHda == <<"H", "D", "A", " ", "p", "u", "l">>
NameMonitor == <<"M", "o", "n", " ", "P", "I", "P", "E", "W", "I", "R", "E">>

\* str.lower() on the letters that occur
LowerChar(c) ==
    CASE c = "P" -> "p"
      [] c = "I" -> "i"
      [] c = "E" -> "e"
      [] c = "W" -> "w"
      [] c = "R" -> "r"
      [] c = "H" -> "h"
      [] c = "D" -> "d"
      [] c = "A" -> "a"
      [] c = "M" -> "m"
      [] OTHER -> c

Lower(name) == [i \in DOMAIN name |-> LowerChar(name[i])]

\* sub in name
Contains(name, sub) ==
    \E i \in 0..(Len(name) - Len(sub)) : SubSeq(name, i + 1, i + Len(sub)) = sub

\* Device enumeration as _find_audio_device sees it: the device list (each
\* device: name, input channels, whether querying it raises) and the index
\* of the default input device (None: there is none).
DeviceConfigs ==
    { [devs |-> <<>>, dflt |-> None],
      [devs |-> <<[name |-> NameHda, maxIn |-> 2, err |-> FALSE]>>, dflt |-> 1],
      [devs |-> <<[name |-> NameHda, maxIn |-> 2, err |-> FALSE],
                  [name |-> NamePulse, maxIn |-> 32, err |-> FALSE]>>, dflt |-> 1],
      [devs |-> <<[name |-> NamePipewire, maxIn |-> 0, err |-> FALSE],
                  [name |-> NamePulse, maxIn |-> 32, err |-> TRUE]>>, dflt |-> None] }

\* Variant that compares the name as reported, without lower().
PreferredCaseSensitive(d) ==
    /\ ~d.err
    /\ \/ Contains(d.name, <<"p", "u", "l", "s", "e">>)
       \/ Contains(d.name, <<"p", "i", "p", "e", "w", "i", "r", "e">>)
    /\ d.maxIn > 0

\* lines 73-75, with the except of lines 78-79
Preferred(d) ==
    /\ ~d.err
    /\ \/ Contains(Lower(d.name), <<"p", "u", "l", "s", "e">>)
       \/ Contains(Lower(d.name), <<"p", "i", "p", "e", "w", "i", "r", "e">>)
    /\ d.maxIn > 0

RECURSIVE ScanFrom(_, _)
\* lines 71-79: the loop over the devices, from device i on
ScanFrom(devs, i) ==
    IF i > Len(devs) THEN None
    ELSE IF Preferred(devs[i]) THEN i
    ELSE ScanFrom(devs, i + 1)

\* _find_audio_device on a live instance: the index (from 1) of the device
\* chosen, or None.  get_default_input_device_info (line 83) queries the
\* default device, so it raises when there is none or when that query fails.
FindAudioDevice(cfg) ==
    IF ScanFrom(cfg.devs, 1) # None
    THEN ScanFrom(cfg.devs, 1)
    ELSE IF cfg.dflt # None /\ ~cfg.devs[cfg.dflt].err
         THEN cfg.dflt
         ELSE None

StreamOpen(s) == s # None /\ stState[s] \in {"stopped", "active"}
PaLive(p) == p # None /\ paState[p] = "live"
Alive(w) == pc[w] \notin {"unborn", "dead"}
InLoop(w) == pc[w] \in {"w_check", "w_read", "w_lock", "w_smooth", "w_unlock",
                        "w_sleep", "w_backoff"}
\* past a while test that found the flag set, not yet back at the test
InIteration(w) == pc[w] \in {"w_read", "w_lock", "w_smooth", "w_unlock",
                             "w_sleep", "w_backoff"}
InCleanup(t) == pc[t] \in {"c_test", "c_stop", "c_close", "c_clear",
                           "c_patest", "c_paclear", "c_done"}

\* ----------------------------------------------------------------- Init
Init ==
    /\ deps \in BOOLEAN
    /\ registered = TRUE
    /\ running = FALSE
    /\ pa = None
    /\ stream = None
    /\ audio_thread = 0
    /\ fft_data = Zeros
    /\ lock = Free
    /\ paState = [w \in Workers |-> "none"]
    /\ stState = [w \in Workers |-> "none"]
    /\ stParent = [w \in Workers |-> None]
    /\ pc = [t \in Threads |-> IF t = Main THEN "idle" ELSE "unborn"]
    /\ binned = [w \in Workers |-> Zeros]
    /\ idx = [w \in Workers |-> 0]
    /\ start_result = [w \in Workers |-> "NONE"]
    /\ current_fft = Zeros
    /\ scene_bins = Zeros
    /\ scene_ts = 0
    /\ published = Zeros
    /\ devices = [devs |-> <<>>, dflt |-> None]
    /\ device_index = None
    /\ spectrum = <<>>
    /\ log_indices = <<>>

\* ------------------------------------------------ the capture worker
\* pc of a thread that leaves the try body of _safe_audio_loop: the finally
\* clause calls _cleanup_audio.
Finally == "c_test"

\* Variant without the inner try/except: a failed iteration would fall
\* through to the outer handler and end the loop.
LoopErrorEscapes == "c_test"

\* pc after the inner except clause caught an exception (lines 158-160)
AfterLoopError == "w_backoff"

\* The outer except (lines 162-163), then finally.
ThreadError(w) == pc' = [pc EXCEPT ![w] = Finally]

\* The inner except (lines 158-159): the exception is printed, nothing else
\* is touched.
LoopError(w) ==
    /\ pc' = [pc EXCEPT ![w] = AfterLoopError]
    /\ UNCHANGED localVars

\* lines 98-103: _pa = pyaudio.PyAudio(); device_index = _find_audio_device();
\* return when it is None.  The selector is a read-only query, so the two
\* lines are one step.
WorkerCreate(w) ==
    /\ pc[w] = "w_create"
    /\ \/ /\ paState' = [paState EXCEPT ![w] = "live"]
          /\ pa' = w
          /\ \E cfg \in DeviceConfigs :
                pc' = [pc EXCEPT ![w] = IF FindAudioDevice(cfg) = None
                                        THEN Finally ELSE "w_open"]
       \/ /\ ThreadError(w)
          /\ UNCHANGED <<pa, paState>>
    /\ UNCHANGED <<stream, stState, stParent, binned, idx>>
    /\ UNCHANGED <<hostVars, vecVars, running>>

\* lines 105-113: _stream = _pa.open(..., start=False)
WorkerOpen(w) ==
    /\ pc[w] = "w_open"
    /\ \/ /\ PaLive(pa)
          /\ stState' = [stState EXCEPT ![w] = "stopped"]
          /\ stParent' = [stParent EXCEPT ![w] = pa]
          /\ stream' = w
          /\ pc' = [pc EXCEPT ![w] = "w_start"]
       \/ /\ ThreadError(w)
          /\ UNCHANGED <<stream, stState, stParent>>
    /\ UNCHANGED <<pa, paState, binned, idx>>
    /\ UNCHANGED <<hostVars, vecVars, running>>

\* lines 115-116: _stream.start_stream()
WorkerStartStream(w) ==
    /\ pc[w] = "w_start"
    /\ \/ /\ stream # None
          /\ stState[stream] = "stopped"
          /\ stState' = [stState EXCEPT ![stream] = "active"]
          /\ pc' = [pc EXCEPT ![w] = "w_check"]
       \/ /\ ThreadError(w)
          /\ UNCHANGED stState
    /\ UNCHANGED <<pa, stream, paState, stParent, binned, idx>>
    /\ UNCHANGED <<hostVars, vecVars, running>>

\* line 118: while _running, reached from line 116 or when the sleep of
\* line 156 or line 160 is over
WorkerCheck(w) ==
    /\ pc[w] \in {"w_check", "w_sleep", "w_backoff"}
    /\ pc' = [pc EXCEPT ![w] = IF running THEN "w_read" ELSE Finally]
    /\ UNCHANGED <<audioVars, localVars>>
    /\ UNCHANGED <<hostVars, vecVars, running>>

\* Variant in which a skipped block clears the shared vector.
SkipBlockReset == fft_data' = Zeros /\ UNCHANGED <<lock, published>>

\* A block whose read or analysis failed, or that was empty, is skipped:
\* control never reaches the `with _audio_lock` block.
SkipBlock == UNCHANGED vecVars

\* lines 120-145: if _stream.is_active(): read a block, analyse it
WorkerRead(w) ==
    /\ pc[w] = "w_read"
    /\ \/ /\ LoopError(w)
          /\ SkipBlock
       \/ /\ StreamOpen(stream) /\ stState[stream] = "stopped"
          /\ pc' = [pc EXCEPT ![w] = "w_sleep"]
          /\ SkipBlock
          /\ UNCHANGED localVars
       \/ /\ StreamOpen(stream) /\ stState[stream] = "active"
          /\ \/ /\ LoopError(w)
                /\ SkipBlock
             \/ /\ pc' = [pc EXCEPT ![w] = "w_sleep"]
                /\ SkipBlock
                /\ UNCHANGED localVars
             \/ /\ \E v \in AnalysedVectors :
                      binned' = [binned EXCEPT ![w] = v]
                /\ pc' = [pc EXCEPT ![w] = "w_lock"]
                /\ UNCHANGED <<vecVars, idx>>
    /\ UNCHANGED <<audioVars, hostVars, running>>

\* Variant without mutual exclusion: the with block never waits.
LockIgnored(t) == TRUE

\* threading.Lock: thread t can take the lock
LockAvailable(t) == lock = Free

\* lines 148-149 and 154: with _audio_lock: if any(_fft_data) ... else the
\* slice assignment, which is a single store
WorkerAcquire(w) ==
    /\ pc[w] = "w_lock"
    /\ LockAvailable(w)
    /\ lock' = w
    /\ IF AnyNonZero(fft_data)
       THEN /\ pc' = [pc EXCEPT ![w] = "w_smooth"]
            /\ idx' = [idx EXCEPT ![w] = 1]
            /\ UNCHANGED fft_data
            /\ UNCHANGED binned
       ELSE /\ pc' = [pc EXCEPT ![w] = "w_unlock"]
            /\ fft_data' = binned[w]
            /\ binned' = [binned EXCEPT ![w] = Zeros]
            /\ UNCHANGED idx
    /\ UNCHANGED published
    /\ UNCHANGED <<audioVars, hostVars, running>>

\* lines 151-152: one iteration of the per-bin smoothing loop; `binned` is
\* dead once the last bin is written
WorkerSmooth(w) ==
    /\ pc[w] = "w_smooth"
    /\ fft_data' = [fft_data EXCEPT
                        ![idx[w]] = Smooth(binned[w][idx[w]], fft_data[idx[w]])]
    /\ IF idx[w] < NBins
       THEN /\ idx' = [idx EXCEPT ![w] = idx[w] + 1]
            /\ UNCHANGED <<pc, binned>>
       ELSE /\ idx' = [idx EXCEPT ![w] = 0]
            /\ binned' = [binned EXCEPT ![w] = Zeros]
            /\ pc' = [pc EXCEPT ![w] = "w_unlock"]
    /\ UNCHANGED <<lock, published>>
    /\ UNCHANGED <<audioVars, hostVars, running>>

\* Variant with the sleep of line 156 inside the with block: the worker
\* goes to sleep holding the lock.
WorkerSleepsInsideLock(w) ==
    /\ pc[w] = "w_unlock"
    /\ published' = fft_data
    /\ pc' = [pc EXCEPT ![w] = "w_sleep"]
    /\ UNCHANGED <<fft_data, lock, binned, idx>>
    /\ UNCHANGED <<audioVars, hostVars, running>>

\* leaving the with block releases the lock; then line 156: time.sleep(0.01)
WorkerRelease(w) ==
    /\ pc[w] = "w_unlock"
    /\ lock' = Free
    /\ published' = fft_data
    /\ pc' = [pc EXCEPT ![w] = "w_sleep"]
    /\ UNCHANGED <<fft_data, binned, idx>>
    /\ UNCHANGED <<audioVars, hostVars, running>>

\* ------------------------------------------------------ _cleanup_audio
\* Run by a worker (finally, line 165) or by the main thread (unregister,
\* line 560).  Every use of _stream and _pa re-reads the global.

\* pc of thread t when _cleanup_audio returns: a worker's thread ends, the
\* main thread goes on with unregister
CleanupReturn(t) == IF t = Main THEN "c_done" ELSE "dead"

\* lines 53-54: the first except clause, then on to the second try
StreamCleanupError(t) == pc' = [pc EXCEPT ![t] = "c_patest"]

\* lines 60-61: the second except clause, then return
PaCleanupError(t) == pc' = [pc EXCEPT ![t] = CleanupReturn(t)]

\* lines 48-49: if _stream is not None: if not _stream.is_stopped()
CleanupTest(t) ==
    /\ pc[t] = "c_test"
    /\ \/ /\ stream = None
          /\ pc' = [pc EXCEPT ![t] = "c_patest"]
       \/ /\ StreamOpen(stream)
          /\ pc' = [pc EXCEPT ![t] = IF stState[stream] = "active"
                                     THEN "c_stop" ELSE "c_close"]
       \/ /\ stream # None
          /\ StreamCleanupError(t)
    /\ UNCHANGED <<audioVars, localVars, hostVars, vecVars, running>>

\* line 50: _stream.stop_stream()
CleanupStop(t) ==
    /\ pc[t] = "c_stop"
    /\ \/ /\ StreamOpen(stream)
          /\ stState' = [stState EXCEPT ![stream] = "stopped"]
          /\ pc' = [pc EXCEPT ![t] = "c_close"]
       \/ /\ StreamCleanupError(t)
          /\ UNCHANGED stState
    /\ UNCHANGED <<pa, stream, paState, stParent>>
    /\ UNCHANGED <<localVars, hostVars, vecVars, running>>

\* line 51: _stream.close()
CleanupClose(t) ==
    /\ pc[t] = "c_close"
    /\ \/ /\ StreamOpen(stream)
          /\ stState' = [stState EXCEPT ![stream] = "closed"]
          /\ pc' = [pc EXCEPT ![t] = "c_clear"]
       \/ /\ StreamCleanupError(t)
          /\ UNCHANGED stState
    /\ UNCHANGED <<pa, stream, paState, stParent>>
    /\ UNCHANGED <<localVars, hostVars, vecVars, running>>

\* line 52: _stream = None
CleanupClear(t) ==
    /\ pc[t] = "c_clear"
    /\ stream' = None
    /\ pc' = [pc EXCEPT ![t] = "c_patest"]
    /\ UNCHANGED <<pa, paState, stState, stParent>>
    /\ UNCHANGED <<localVars, hostVars, vecVars, running>>

\* lines 57-58: if _pa is not None: _pa.terminate().  PyAudio.terminate
\* closes the streams the instance still holds, then releases the audio
\* subsystem.
CleanupTerminate(t) ==
    /\ pc[t] = "c_patest"
    /\ \/ /\ pa = None
          /\ pc' = [pc EXCEPT ![t] = CleanupReturn(t)]
          /\ UNCHANGED <<paState, stState>>
       \/ /\ pa # None
          /\ paState' = [paState EXCEPT ![pa] = "terminated"]
          /\ stState' = [s \in Workers |->
                            IF stParent[s] = pa /\ stState[s] \in {"stopped", "active"}
                            THEN "closed" ELSE stState[s]]
          /\ pc' = [pc EXCEPT ![t] = "c_paclear"]
       \/ /\ pa # None
          /\ PaCleanupError(t)
          /\ UNCHANGED <<paState, stState>>
    /\ UNCHANGED <<pa, stream, stParent>>
    /\ UNCHANGED <<localVars, hostVars, vecVars, running>>

\* line 59: _pa = None
CleanupPaClear(t) ==
    /\ pc[t] = "c_paclear"
    /\ pa' = None
    /\ pc' = [pc EXCEPT ![t] = CleanupReturn(t)]
    /\ UNCHANGED <<stream, paState, stState, stParent>>
    /\ UNCHANGED <<localVars, hostVars, vecVars, running>>

CleanupStep(t) ==
    \/ CleanupTest(t)
    \/ CleanupStop(t)
    \/ CleanupClose(t)
    \/ CleanupClear(t)
    \/ CleanupTerminate(t)
    \/ CleanupPaClear(t)

WorkerStep(w) ==
    \/ WorkerCreate(w)
    \/ WorkerOpen(w)
    \/ WorkerStartStream(w)
    \/ WorkerCheck(w)
    \/ WorkerRead(w)
    \/ WorkerAcquire(w)
    \/ WorkerSmooth(w)
    \/ WorkerRelease(w)
    \/ CleanupStep(w)

\* ------------------------------------------------------ the main thread
\* The window manager's timer and modal-handler lists are the host's; the
\* handler execute() adds stays until its modal() finds the flag clear, so
\* a handler exists whenever the flag is set.

\* Variant in which the running test comes after the scene reset of lines
\* 400-403.
StartAlreadyRunningLate ==
    /\ pc' = [pc EXCEPT ![Main] = "cancelled"]
    /\ scene_ts' = 0
    /\ scene_bins' = Zeros
    /\ UNCHANGED <<deps, stageVars, registered, audio_thread, start_result, current_fft>>
    /\ UNCHANGED <<running, audioVars, localVars, vecVars>>

\* lines 396-398: the duplicate start request is refused before anything
\* is written; execute is left to return {'CANCELLED'}
StartAlreadyRunning ==
    /\ pc' = [pc EXCEPT ![Main] = "cancelled"]
    /\ UNCHANGED <<running, audioVars, localVars, hostVars, vecVars>>

\* Variant in which a new session starts from an all-zero vector.
StartVectorReset == fft_data' = Zeros /\ published' = Zeros /\ UNCHANGED lock

\* lines 400-406: execute resets the scene properties only; _fft_data and
\* its lock are not touched
StartVector == UNCHANGED vecVars

\* AUDIOFFT_OT_Start.execute
StartExecute ==
    /\ pc[Main] = "idle"
    /\ registered
    /\ \/ /\ ~deps
          /\ pc' = [pc EXCEPT ![Main] = "cancelled"]
          /\ UNCHANGED <<running, audioVars, localVars, hostVars, vecVars>>
       \/ /\ deps
          /\ running
          /\ StartAlreadyRunning
       \/ /\ deps
          /\ ~running
          /\ audio_thread < MaxWorkers
          /\ scene_ts' = 0
          /\ scene_bins' = Zeros
          /\ running' = TRUE
          /\ audio_thread' = audio_thread + 1
          /\ pc' = [pc EXCEPT ![audio_thread + 1] = "w_create"]
          /\ start_result' = [start_result EXCEPT ![audio_thread + 1] = "RUNNING_MODAL"]
          /\ UNCHANGED <<deps, stageVars, registered, current_fft>>
          /\ UNCHANGED <<audioVars, localVars>>
          /\ StartVector

\* lines 394 and 398: return {'CANCELLED'}
StartReturn ==
    /\ pc[Main] = "cancelled"
    /\ pc' = [pc EXCEPT ![Main] = "idle"]
    /\ UNCHANGED <<running, audioVars, localVars, hostVars, vecVars>>

\* AUDIOFFT_OT_Stop.execute
StopExecute ==
    /\ pc[Main] = "idle"
    /\ registered
    /\ running
    /\ running' = FALSE
    /\ UNCHANGED <<pc, audioVars, localVars, hostVars, vecVars>>

\* AUDIOFFT_OT_Start.cancel, called by the host when it ends the modal
\* operator
Cancel ==
    /\ pc[Main] = "idle"
    /\ registered
    /\ running
    /\ running' = FALSE
    /\ UNCHANGED <<pc, audioVars, localVars, hostVars, vecVars>>

\* Variant that empties the shared vector as it copies it.
SnapshotAndClear(to) ==
    /\ lock = Free
    /\ lock' = Main
    /\ current_fft' = fft_data
    /\ fft_data' = Zeros
    /\ pc' = [pc EXCEPT ![Main] = to]
    /\ UNCHANGED published

\* lines 357-358 and 530-531: with _audio_lock: current_fft = _fft_data[:]
\* (the slice copy is a single load); the handler proceeds once the lock is
\* free
Snapshot(to) ==
    /\ LockAvailable(Main)
    /\ lock' = Main
    /\ current_fft' = fft_data
    /\ pc' = [pc EXCEPT ![Main] = to]
    /\ UNCHANGED <<fft_data, published>>

\* AUDIOFFT_OT_Start.modal on a TIMER event, down to line 358.  The scene
\* is private to the main thread, so the timestamp of line 355 is written
\* with the bins.
Modal ==
    /\ pc[Main] = "idle"
    /\ registered
    /\ running
    /\ Snapshot("m_copied")
    /\ UNCHANGED <<deps, stageVars, registered, audio_thread, start_result, scene_bins,
                   scene_ts>>
    /\ UNCHANGED <<running, audioVars, localVars>>

\* lines 355-387: the lock is released, timestamp and copy go to the scene
ModalPublish ==
    /\ pc[Main] = "m_copied"
    /\ lock' = Free
    /\ \E now \in Times : scene_ts' = now
    /\ scene_bins' = current_fft
    /\ current_fft' = Zeros
    /\ pc' = [pc EXCEPT ![Main] = "idle"]
    /\ UNCHANGED <<fft_data, published>>
    /\ UNCHANGED <<deps, stageVars, registered, audio_thread, start_result>>
    /\ UNCHANGED <<running, audioVars, localVars>>

\* AUDIOFFT_PT_Panel.draw down to line 531: the live preview is drawn only
\* while _running
PanelDraw ==
    /\ pc[Main] = "idle"
    /\ registered
    /\ running
    /\ Snapshot("p_copied")
    /\ UNCHANGED <<deps, stageVars, registered, audio_thread, start_result, scene_bins,
                   scene_ts>>
    /\ UNCHANGED <<running, audioVars, localVars>>

\* lines 533-540: the lock is released, the copy is drawn
PanelShow ==
    /\ pc[Main] = "p_copied"
    /\ lock' = Free
    /\ current_fft' = Zeros
    /\ pc' = [pc EXCEPT ![Main] = "idle"]
    /\ UNCHANGED <<fft_data, published>>
    /\ UNCHANGED <<deps, stageVars, registered, audio_thread, start_result, scene_bins,
                   scene_ts>>
    /\ UNCHANGED <<running, audioVars, localVars>>

\* unregister, lines 558-560: clear the flag, then _cleanup_audio on this thread
Unregister ==
    /\ pc[Main] = "idle"
    /\ registered
    /\ running' = FALSE
    /\ pc' = [pc EXCEPT ![Main] = Finally]
    /\ UNCHANGED <<audioVars, localVars, hostVars, vecVars>>

\* unregister, lines 562-566: the operators are gone from here on
UnregisterClasses ==
    /\ pc[Main] = "c_done"
    /\ registered' = FALSE
    /\ pc' = [pc EXCEPT ![Main] = "idle"]
    /\ UNCHANGED <<deps, stageVars, audio_thread, start_result, current_fft, scene_bins,
                   scene_ts>>
    /\ UNCHANGED <<running, audioVars, localVars, vecVars>>

\* the steps that finish a handler the main thread is inside
MainContinue ==
    \/ StartReturn
    \/ ModalPublish
    \/ PanelShow
    \/ CleanupStep(Main)
    \/ UnregisterClasses

Next ==
    \/ \E w \in Workers : WorkerStep(w)
    \/ StartExecute
    \/ StopExecute
    \/ Cancel
    \/ Modal
    \/ PanelDraw
    \/ Unregister
    \/ MainContinue

Spec == Init /\ [][Next]_vars

\* Threads are scheduled fairly: a thread that can take a step eventually
\* takes one, and a thread waiting for the lock gets it (every holder
\* releases it within its step sequence and the worker then sleeps).  The
\* user's requests (start, stop, unregister) are not forced.
FairSpec ==
    /\ Spec
    /\ \A w \in Workers : SF_vars(WorkerStep(w))
    /\ WF_vars(MainContinue)

\* ============================================ the worker's pure stages
\* Each stage of the worker that computes a value from its inputs alone is
\* run on its own, from every input of a bounded set.

\* ------------------------------------------------------------ bounds
Fine == 10          \* grid steps per 1.0 of the vectors of BlockSpec
MaxSpec == 4        \* longest spectrum BlockSpec analyses
MaxMag == 2         \* largest spectrum magnitude BlockSpec analyses
MaxSpecLen == 70    \* longest spectrum IndexSpec generates indices for
MaxDevices == 3     \* most devices DeviceSpec enumerates

\* lines 29-30
BLOCK_SIZE == 1024
N_BINS == 16

\* ---------------------------------------------------- big naturals
\* x ** (k / (n - 1)) is compared through m ** (n - 1) <= x ** k, which
\* leaves the machine word for x = 512, n = 16: naturals are kept as
\* little-endian sequences of digits base 10000.

RECURSIVE BigTimes(_, _, _)
\* a * m + carry
BigTimes(a, m, carry) ==
    IF a = <<>>
    THEN IF carry = 0 THEN <<>>
         ELSE <<carry % 10000>> \o BigTimes(<<>>, m, carry \div 10000)
    ELSE <<(Head(a) * m + carry) % 10000>>
         \o BigTimes(Tail(a), m, (Head(a) * m + carry) \div 10000)

RECURSIVE BigPow(_, _)
\* m ** e, m >= 1
BigPow(m, e) == IF e = 0 THEN <<1>> ELSE BigTimes(BigPow(m, e - 1), m, 0)

RECURSIVE BigLeqFrom(_, _, _)
BigLeqFrom(a, b, i) ==
    IF i = 0 THEN TRUE
    ELSE IF a[i] # b[i] THEN a[i] < b[i]
    ELSE BigLeqFrom(a, b, i - 1)

\* a <= b
BigLeq(a, b) ==
    \/ Len(a) < Len(b)
    \/ Len(a) = Len(b) /\ BigLeqFrom(a, b, Len(a))

\* ------------------------------------------- index generation, 134-138

RECURSIVE FloorRoot(_, _, _, _)
\* the largest m in lo..hi with m ** e <= target, lo being one such m
FloorRoot(target, e, lo, hi) ==
    IF lo = hi THEN lo
    ELSE IF BigLeq(BigPow((lo + hi + 1) \div 2, e), target)
         THEN FloorRoot(target, e, (lo + hi + 1) \div 2, hi)
         ELSE FloorRoot(target, e, lo, (lo + hi + 1) \div 2 - 1)

RECURSIVE LogFrom(_, _, _, _, _)
\* np.logspace(0, np.log10(x), n).astype(int), entries k..n-1: the integer
\* part of x ** (k / (n - 1)).  Where that power is a whole number m > 1 the
\* floating-point result may fall just below it and truncate to m - 1:
\* `down` says whether it does.
LogFrom(n, x, k, m, down) ==
    LET target == BigPow(x, k)
        r == FloorRoot(target, n - 1, m, x)
        exact == BigPow(r, n - 1) = target
        v == IF exact /\ down /\ k > 0 THEN r - 1 ELSE r
    IN  <<v>> \o (IF k = n - 1 THEN <<>> ELSE LogFrom(n, x, k + 1, r, down))

LogPositions(n, len, down) == LogFrom(n, len - 1, 0, 1, down)

RECURSIVE SortedSeq(_)
SortedSeq(S) ==
    IF S = {} THEN <<>>
    ELSE LET mn == CHOOSE a \in S : \A b \in S : a <= b
         IN  <<mn>> \o SortedSeq(S \ {mn})

\* np.unique: the sorted distinct entries
Unique(seq) == SortedSeq({seq[i] : i \in DOMAIN seq})

\* np.linspace(0, len - 1, n).astype(int): the integer part of
\* k * ((len - 1) / (n - 1)); the end points are exact, an interior point
\* that is a whole number under a fractional step may truncate one lower
LinPositions(n, len, down) ==
    [j \in 1..n |->
        LET t == (len - 1) * (j - 1)
        IN  IF /\ down
               /\ j \notin {1, n}
               /\ t % (n - 1) = 0
               /\ (len - 1) % (n - 1) # 0
            THEN t \div (n - 1) - 1
            ELSE t \div (n - 1)]

\* lines 134-138, with the slice [:N_BINS] of line 138
BinIndices(n, len, down) ==
    LET lg == Unique(LogPositions(n, len, down))
        ix == IF Len(lg) < n THEN LinPositions(n, len, down) ELSE lg
    IN  SubSeq(ix, 1, IF Len(ix) < n THEN Len(ix) ELSE n)

\* --------------------------------------------------- analysis, 130-145

\* lines 130-138: np.pad to n entries, or the spectrum at the generated
\* indices (which count from 0)
Binned(n, sp, down) ==
    IF Len(sp) <= n
    THEN [i \in 1..n |-> IF i <= Len(sp) THEN sp[i] ELSE 0]
    ELSE LET ix == BinIndices(n, Len(sp), down)
         IN  [i \in 1..Len(ix) |-> sp[ix[i] + 1]]

\* line 141: binned.max()
MaxVal(b) == CHOOSE m \in {b[i] : i \in DOMAIN b} : \A i \in DOMAIN b : b[i] <= m

\* Variant that scales without dividing by the largest bin.
CompressUnnormalised(v, mx, one) == v * one

\* lines 143-145: (v / max_val) ** 0.6 in steps of 1 / one, rounded down:
\* the largest m with (m / one) ** 5 <= (v / max_val) ** 3
Compress(v, mx, one) ==
    CHOOSE m \in 0..one :
        /\ m * m * m * m * m * mx * mx * mx <= one * one * one * one * one * v * v * v
        /\ \A m2 \in (m + 1)..one :
              m2 * m2 * m2 * m2 * m2 * mx * mx * mx > one * one * one * one * one * v * v * v

\* Variant without the test of line 142; 0 / 0 is then computed, for which
\* Compress yields `one`, numpy NaN.
AlwaysNormalise(mx) == TRUE

\* line 142: if max_val > 0
Normalisable(mx) == mx > 0

\* lines 130-145 on the magnitudes `sp` of a non-empty block.  The
\* magnitudes are those of the transform of the windowed block (lines
\* 126-127): none is negative, and all are zero when the block is silent.
Analyse(n, sp, one, down) ==
    LET b == Binned(n, sp, down)
    IN  IF Normalisable(MaxVal(b))
        THEN [i \in DOMAIN b |-> Compress(b[i], MaxVal(b), one)]
        ELSE b

\* ------------------------------------------ one block, lines 120-156
\* A worker inside an iteration, its stream active, with the magnitudes of
\* the block it read in `spectrum` and any vector of the fine grid already
\* published.

Spectra == UNION { [1..n -> 0..MaxMag] : n \in 1..MaxSpec }

BlockInit ==
    /\ deps = TRUE
    /\ registered = TRUE
    /\ running = TRUE
    /\ pa = 1
    /\ stream = 1
    /\ audio_thread = 1
    /\ fft_data \in [Bins -> 0..Fine]
    /\ published = fft_data
    /\ lock = Free
    /\ paState = [w \in Workers |-> IF w = 1 THEN "live" ELSE "none"]
    /\ stState = [w \in Workers |-> IF w = 1 THEN "active" ELSE "none"]
    /\ stParent = [w \in Workers |-> IF w = 1 THEN 1 ELSE None]
    /\ pc = [t \in Threads |-> IF t = Main THEN "idle"
                               ELSE IF t = 1 THEN "w_read" ELSE "unborn"]
    /\ binned = [w \in Workers |-> Zeros]
    /\ idx = [w \in Workers |-> 0]
    /\ start_result = [w \in Workers |-> IF w = 1 THEN "RUNNING_MODAL" ELSE "NONE"]
    /\ current_fft = Zeros
    /\ scene_bins = Zeros
    /\ scene_ts = 0
    /\ devices = [devs |-> <<>>, dflt |-> None]
    /\ device_index = 1
    /\ spectrum \in Spectra
    /\ log_indices = <<>>

\* lines 124-145 for the block whose magnitudes are in `spectrum`
AnalyseBlock(w) ==
    /\ pc[w] = "w_read"
    /\ spectrum # <<>>
    /\ \E down \in BOOLEAN :
          /\ binned' = [binned EXCEPT ![w] = Analyse(NBins, spectrum, Fine, down)]
          /\ log_indices' = IF Len(spectrum) <= NBins THEN <<>>
                            ELSE BinIndices(NBins, Len(spectrum), down)
    /\ pc' = [pc EXCEPT ![w] = "w_lock"]
    /\ UNCHANGED <<idx, devices, device_index, spectrum>>
    /\ UNCHANGED <<deps, registered, audio_thread, start_result, current_fft,
                   scene_bins, scene_ts>>
    /\ UNCHANGED <<audioVars, vecVars, running>>

BlockNext ==
    \E w \in Workers :
        \/ AnalyseBlock(w)
        \/ WorkerAcquire(w)
        \/ WorkerSmooth(w)
        \/ WorkerRelease(w)

BlockSpec == BlockInit /\ [][BlockNext]_vars

\* ------------------------------------ device selection, lines 63-92
\* A worker about to select its device, for every device table of up to
\* MaxDevices devices.  The default input device, when there is one, has
\* input channels.

DeviceRecords ==
    [name : {NamePulse, NamePipewire, NameHda, NameMonitor},
     maxIn : {0, 2},
     err : BOOLEAN]

DeviceTables ==
    { cfg \in [devs : UNION { [1..n -> DeviceRecords] : n \in 0..MaxDevices },
               dflt : 0..MaxDevices] :
        cfg.dflt # None =>
            /\ cfg.dflt <= Len(cfg.devs)
            /\ cfg.devs[cfg.dflt].maxIn > 0 }

DeviceInit ==
    /\ deps = TRUE
    /\ registered = TRUE
    /\ running = TRUE
    /\ pa \in {None, 1}
    /\ stream = None
    /\ audio_thread = 1
    /\ fft_data = Zeros
    /\ published = Zeros
    /\ lock = Free
    /\ paState = [w \in Workers |-> IF w = 1 THEN (IF pa = 1 THEN "live" ELSE "terminated")
                                   ELSE "none"]
    /\ stState = [w \in Workers |-> "none"]
    /\ stParent = [w \in Workers |-> None]
    /\ pc = [t \in Threads |-> IF t = Main THEN "idle"
                               ELSE IF t = 1 THEN "w_find" ELSE "unborn"]
    /\ binned = [w \in Workers |-> Zeros]
    /\ idx = [w \in Workers |-> 0]
    /\ start_result = [w \in Workers |-> IF w = 1 THEN "RUNNING_MODAL" ELSE "NONE"]
    /\ current_fft = Zeros
    /\ scene_bins = Zeros
    /\ scene_ts = 0
    /\ devices \in DeviceTables
    /\ device_index = None
    /\ spectrum = <<>>
    /\ log_indices = <<>>

\* lines 99-103: device_index = _find_audio_device(), which returns None at
\* once when _pa is None (lines 65-66)
FindDevice(w) ==
    /\ pc[w] = "w_find"
    /\ device_index' = IF pa = None THEN None ELSE FindAudioDevice(devices)
    /\ pc' = [pc EXCEPT ![w] = IF device_index' = None THEN Finally ELSE "w_open"]
    /\ UNCHANGED <<binned, idx, devices, spectrum, log_indices>>
    /\ UNCHANGED <<deps, registered, audio_thread, start_result, current_fft,
                   scene_bins, scene_ts>>
    /\ UNCHANGED <<audioVars, vecVars, running>>

DeviceNext == \E w \in Workers : FindDevice(w)

DeviceSpec == DeviceInit /\ [][DeviceNext]_vars

\* ------------------------------------ index generation, lines 133-138
\* A worker that has the spectrum of a block longer than N_BINS and is
\* about to generate the indices; only the length of the spectrum matters.

SpectrumLens == ((N_BINS + 1)..MaxSpecLen) \cup {BLOCK_SIZE \div 2 + 1}

IndexInit ==
    /\ deps = TRUE
    /\ registered = TRUE
    /\ running = TRUE
    /\ pa = 1
    /\ stream = 1
    /\ audio_thread = 1
    /\ fft_data = Zeros
    /\ published = Zeros
    /\ lock = Free
    /\ paState = [w \in Workers |-> IF w = 1 THEN "live" ELSE "none"]
    /\ stState = [w \in Workers |-> IF w = 1 THEN "active" ELSE "none"]
    /\ stParent = [w \in Workers |-> IF w = 1 THEN 1 ELSE None]
    /\ pc = [t \in Threads |-> IF t = Main THEN "idle"
                               ELSE IF t = 1 THEN "w_index" ELSE "unborn"]
    /\ binned = [w \in Workers |-> Zeros]
    /\ idx = [w \in Workers |-> 0]
    /\ start_result = [w \in Workers |-> IF w = 1 THEN "RUNNING_MODAL" ELSE "NONE"]
    /\ current_fft = Zeros
    /\ scene_bins = Zeros
    /\ scene_ts = 0
    /\ devices = [devs |-> <<>>, dflt |-> None]
    /\ device_index = 1
    /\ \E len \in SpectrumLens : spectrum = [i \in 1..len |-> 0]
    /\ log_indices = <<>>

\* lines 134-138 with N_BINS bins
GenerateIndices(w) ==
    /\ pc[w] = "w_index"
    /\ Len(spectrum) > N_BINS
    /\ \E down \in BOOLEAN :
          log_indices' = BinIndices(N_BINS, Len(spectrum), down)
    /\ pc' = [pc EXCEPT ![w] = "w_indexed"]
    /\ UNCHANGED <<binned, idx, devices, device_index, spectrum>>
    /\ UNCHANGED <<deps, registered, audio_thread, start_result, current_fft,
                   scene_bins, scene_ts>>
    /\ UNCHANGED <<audioVars, vecVars, running>>

IndexNext == \E w \in Workers : GenerateIndices(w)

IndexSpec == IndexInit /\ [][IndexNext]_vars

\* ------------------------------- the consumers alone, 357-358, 530-531
\* A session running with its worker asleep between two blocks, any vector
\* of the fine grid published, the scene as execute() reset it: only the
\* modal handler and the panel run, so nothing is published in between.

SnapshotInit ==
    /\ deps = TRUE
    /\ registered = TRUE
    /\ running = TRUE
    /\ pa = 1
    /\ stream = 1
    /\ audio_thread = 1
    /\ fft_data \in [Bins -> 0..Fine]
    /\ published = fft_data
    /\ lock = Free
    /\ paState = [w \in Workers |-> IF w = 1 THEN "live" ELSE "none"]
    /\ stState = [w \in Workers |-> IF w = 1 THEN "active" ELSE "none"]
    /\ stParent = [w \in Workers |-> IF w = 1 THEN 1 ELSE None]
    /\ pc = [t \in Threads |-> IF t = Main THEN "idle"
                               ELSE IF t = 1 THEN "w_sleep" ELSE "unborn"]
    /\ binned = [w \in Workers |-> Zeros]
    /\ idx = [w \in Workers |-> 0]
    /\ start_result = [w \in Workers |-> IF w = 1 THEN "RUNNING_MODAL" ELSE "NONE"]
    /\ current_fft = Zeros
    /\ scene_bins = Zeros
    /\ scene_ts = 0
    /\ devices = [devs |-> <<>>, dflt |-> None]
    /\ device_index = None
    /\ spectrum = <<>>
    /\ log_indices = <<>>

SnapshotNext ==
    \/ Modal
    \/ ModalPublish
    \/ PanelDraw
    \/ PanelShow

SnapshotSpec == SnapshotInit /\ [][SnapshotNext]_vars

\* ================================================================ claims

\* C1: at most one capture worker is alive at any time.
AtMostOneWorkerAlive == Cardinality({w \in Workers : Alive(w)}) <= 1

\* C2: a snapshot never observes a partially updated vector: the copy a
\* snapshot takes is the vector exactly as the last completed publish left it.
SnapshotNeverTorn ==
    pc[Main] \in {"m_copied", "p_copied"} => current_fft = published

SnapshotUnderContention ==
    /\ pc[Main] = "m_copied"
    /\ AnyNonZero(current_fft)
    /\ \E w \in Workers : pc[w] = "w_lock" /\ binned[w] # current_fft

\* C3: stopping a session results in its stream being closed: once the
\* flag is clear, every worker has exited and cleanup has cleared both
\* handles (no cleanup call failed on them), no stream is left open.
StoppedSessionReleased ==
    ( /\ ~running
      /\ \A w \in Workers : ~Alive(w)
      /\ pc[Main] = "idle"
      /\ pa = None /\ stream = None )
    => \A w \in Workers : ~StreamOpen(w)

\* C4: a failed start leaves the controller Idle: whenever no worker is
\* alive the run flag is false and no stream is open.
IdleWhenNoWorker ==
    (\A w \in Workers : ~Alive(w))
    => (~running /\ \A w \in Workers : ~StreamOpen(w))

\* C5: a start request whose worker fails before it opened a stream (no
\* device, open failure) did not report success.
StartFailureReported ==
    \A w \in Workers :
        ((InCleanup(w) \/ pc[w] = "dead") /\ stState[w] = "none")
        => start_result[w] # "RUNNING_MODAL"

\* C6: a worker that is inside a loop iteration when the run flag has gone
\* from true to false (it passed the while test with the flag set, and the
\* flag is clear now) eventually leaves the loop.
CooperativeCancellation ==
    \A w \in Workers : (InIteration(w) /\ ~running) ~> ~InLoop(w)

\* C7: a worker leaves the capture loop only by the while test finding the
\* run flag false.
LoopExitsOnlyOnFlag ==
    [][\A w \in Workers :
          (InLoop(w) /\ ~InLoop(w)')
          => (~running /\ pc[w] \in {"w_check", "w_sleep", "w_backoff"}
                       /\ pc'[w] = "c_test")]_vars

StillLoopingAfterFailure ==
    \E w \in Workers : pc[w] = "w_backoff" /\ running /\ ~StreamOpen(stream)

\* C8: an iteration whose read or analysis fails, or whose block is empty,
\* leaves the shared vector as it was.
FailedIterationKeepsVector ==
    [][\A w \in Workers :
          (pc[w] = "w_read" /\ pc'[w] \in {"w_sleep", "w_backoff"})
          => fft_data' = fft_data]_vars

LastGoodValueRetained ==
    \E w \in Workers : pc[w] = "w_backoff" /\ AnyNonZero(fft_data)

\* C9: the cleanup steps are independent: after the stop step, failed or
\* not, the close step is attempted, and after the close step the
\* terminate step.
CleanupStepsIndependent ==
    [][\A t \in Threads :
          /\ (pc[t] = "c_stop" /\ pc'[t] # "c_stop") => pc'[t] = "c_close"
          /\ (pc[t] = "c_close" /\ pc'[t] # "c_close")
                => pc'[t] \in {"c_clear", "c_patest"}]_vars

\* C10: a start request refused because a session is running changes
\* nothing: flag, thread handle, stream and device handles, shared vector
\* and the scene's bins and timestamp are as before.
RejectedStartNoSideEffects ==
    [][(pc[Main] = "idle" /\ pc'[Main] = "cancelled" /\ deps)
          => /\ running /\ running'
             /\ pc' = [pc EXCEPT ![Main] = "cancelled"]
             /\ UNCHANGED <<audioVars, localVars, hostVars, vecVars>>]_vars

RejectedWhileRunning ==
    /\ pc[Main] = "cancelled"
    /\ running
    /\ deps
    /\ scene_ts # 0
    /\ AnyNonZero(scene_bins)
    /\ \E w \in Workers : InLoop(w)

\* C11: publish law.  With P the vector published before and V the analysed
\* vector, a publish that finds P all zero stores V as it is; one that finds
\* a non-zero bin in P leaves every bin within one grid step of
\* 0.3 * V[i] + 0.7 * P[i].  (BlockSpec)
PublishLaw ==
    [][\A w \in Workers :
        /\ (pc[w] = "w_lock" /\ pc'[w] # "w_lock")
              => IF AnyNonZero(published)
                 THEN pc'[w] = "w_smooth" /\ fft_data' = published
                 ELSE pc'[w] = "w_unlock" /\ fft_data' = binned[w]
        /\ (pc[w] = "w_smooth" /\ pc'[w] = "w_unlock")
              => \A i \in Bins :
                    /\ 10 * fft_data'[i] <= 3 * binned[w][i] + 7 * published[i]
                    /\ 3 * binned[w][i] + 7 * published[i] < 10 * fft_data'[i] + 10
        /\ (pc[w] = "w_unlock" /\ pc'[w] # "w_unlock")
              => published' = fft_data /\ fft_data' = fft_data]_vars

SmoothedPublishDone ==
    \E w \in Workers :
        /\ pc[w] = "w_unlock"
        /\ lock = w
        /\ AnyNonZero(published)
        /\ \E i \in Bins : fft_data[i] \notin {0, Fine, published[i]}
        /\ Len(spectrum) > NBins

\* C12: the shared vector always has exactly N entries, each in [0, 1]; so
\* has the vector the analysis of any block hands to the publish step.
\* (BlockSpec; 1.0 is Fine)
VectorShape ==
    /\ fft_data \in [Bins -> 0..Fine]
    /\ \A w \in Workers : binned[w] \in [Bins -> 0..Fine]

AnalysedThroughIndices ==
    \E w \in Workers :
        /\ pc[w] = "w_lock"
        /\ Len(spectrum) > NBins
        /\ \E i \in Bins : binned[w][i] = Fine
        /\ \E i \in Bins : binned[w][i] \notin {0, Fine}

\* C16: a silent block (all magnitudes zero) is analysed to the all-zero
\* vector: the normalisation is skipped, nothing is divided by zero.
\* (BlockSpec)
SilenceGivesZeros ==
    \A w \in Workers :
        (pc[w] = "w_lock" /\ \A i \in DOMAIN spectrum : spectrum[i] = 0)
            => binned[w] = Zeros

SilentBlockAnalysed ==
    \E w \in Workers :
        /\ pc[w] = "w_lock"
        /\ Len(spectrum) > NBins
        /\ \A i \in DOMAIN spectrum : spectrum[i] = 0
        /\ AnyNonZero(fft_data)

\* C13: device selection follows the ordered policy.  The device chosen is
\* the first one, in enumeration order, whose query succeeds, whose
\* lower-cased name contains "pulse" or "pipewire" and that has an input
\* channel; if there is none, the default input device when its query
\* succeeds; otherwise none.  Devices whose query raises are skipped: the
\* choice is the same as if each were a healthy device of no interest.
\* (DeviceSpec)
DevicePolicy ==
    \A w \in Workers :
        (pc[w] \in {"w_open", "c_test"} /\ pa # None) =>
            LET devs == devices.devs
                wanted(d) == /\ \/ Contains(Lower(d.name), Lower(NamePulse))
                                \/ Contains(Lower(d.name), NamePipewire)
                             /\ d.maxIn > 0
                hits == {i \in DOMAIN devs : ~devs[i].err /\ wanted(devs[i])}
                masked == [devices EXCEPT !.devs =
                              [i \in DOMAIN devs |->
                                  IF devs[i].err
                                  THEN [name |-> NameHda, maxIn |-> 0, err |-> FALSE]
                                  ELSE devs[i]]]
            IN  /\ hits # {} =>
                      /\ device_index \in hits
                      /\ \A j \in hits : device_index <= j
                /\ (hits = {} /\ devices.dflt # None /\ ~devs[devices.dflt].err)
                      => device_index = devices.dflt
                /\ (hits = {} /\ (devices.dflt = None \/ devs[devices.dflt].err))
                      => device_index = None
                /\ (devices.dflt = None \/ ~devs[devices.dflt].err)
                      => FindAudioDevice(masked) = device_index

PreferredAfterFailingDevice ==
    \E w \in Workers :
        /\ pc[w] = "w_open"
        /\ device_index = 3
        /\ devices.devs[1].err
        /\ devices.devs[1].name = NamePulse
        /\ devices.devs[2].name = NamePipewire
        /\ devices.devs[2].maxIn = 0
        /\ devices.devs[3].name = NameMonitor
        /\ devices.dflt = 1

\* C14: log-index generation for N_BINS = 16 bins over a spectrum of 513
\* magnitudes produces 16 unique, increasing indices reaching the last index
\* (the indices in use are the distinct log-spaced positions); and whenever
\* the log-spaced positions have fewer than 16 distinct values, the indices
\* in use are 16 linearly spaced ones.  (IndexSpec)
LogIndexGeneration ==
    \A w \in Workers :
        pc[w] = "w_indexed" =>
            /\ Len(spectrum) = BLOCK_SIZE \div 2 + 1 =>
                  /\ \E down \in BOOLEAN :
                        log_indices = Unique(LogPositions(N_BINS, Len(spectrum), down))
                  /\ Len(log_indices) = N_BINS
                  /\ \A i \in 1..(Len(log_indices) - 1) :
                        log_indices[i] < log_indices[i + 1]
                  /\ log_indices[Len(log_indices)] = Len(spectrum) - 1
            /\ (\A down \in BOOLEAN :
                  Len(Unique(LogPositions(N_BINS, Len(spectrum), down))) < N_BINS)
                  => /\ Len(log_indices) = N_BINS
                     /\ \E down \in BOOLEAN :
                           log_indices = LinPositions(N_BINS, Len(spectrum), down)

\* C15: a snapshot is read-only and idempotent.  The step that takes one
\* returns the shared vector and leaves it, the run flag and the audio
\* objects as they were; with no publish in between, a snapshot returns the
\* vector the previous one returned (which the modal handler stored in the
\* scene).  (SnapshotSpec)
SnapshotIdempotent ==
    /\ []((pc[Main] \in {"m_copied", "p_copied"} /\ scene_ts # 0)
             => current_fft = scene_bins)
    /\ [][(pc[Main] = "idle" /\ pc'[Main] \in {"m_copied", "p_copied"})
             => /\ current_fft' = fft_data
                /\ fft_data' = fft_data
                /\ published' = published
                /\ running' = running
                /\ UNCHANGED audioVars]_vars

SecondSnapshotTaken ==
    /\ pc[Main] = "p_copied"
    /\ scene_ts # 0
    /\ AnyNonZero(current_fft)
    /\ current_fft = scene_bins

\* C17: every stream is used in the order open, start, read*, stop, close:
\* no activity check or read is issued on a stream that has been closed,
\* and close is not called on a stream that is closed already.
StreamLifecycleOrder ==
    [][/\ \A w \in Workers :
            (pc[w] = "w_read" /\ pc'[w] # "w_read" /\ stream # None)
                => stState[stream] # "closed"
       /\ \A t \in Threads :
            (pc[t] = "c_close" /\ pc'[t] # "c_close" /\ stream # None)
                => stState[stream] # "closed"]_vars

\* C18: the shared vector is written only by a capture worker, inside its
\* publish step, once per block: a block that was read and analysed is
\* published exactly once before the next block is read, and no other step
\* (start, stop, snapshot, cleanup, unregister) changes the vector.
VectorWrittenByWorkerOnly ==
    [][/\ fft_data' # fft_data
            => \E w \in Workers :
                  /\ pc[w] \in {"w_lock", "w_smooth"}
                  /\ pc'[w] \in {"w_smooth", "w_unlock"}
                  /\ lock' = w
       /\ published' # published
            => \E w \in Workers : pc[w] = "w_unlock" /\ pc'[w] = "w_sleep"
       /\ \A w \in Workers :
            /\ (pc'[w] = "w_lock" /\ pc[w] # "w_lock") => pc[w] = "w_read"
            /\ (pc[w] = "w_lock" /\ pc'[w] # "w_lock")
                  => pc'[w] \in {"w_smooth", "w_unlock"}
            /\ (pc[w] = "w_smooth" /\ pc'[w] # "w_smooth") => pc'[w] = "w_unlock"
            /\ (pc[w] = "w_unlock" /\ pc'[w] # "w_unlock")
                  => pc'[w] = "w_sleep" /\ published' = fft_data]_vars

RestartKeepsLastVector ==
    \E w \in Workers :
        /\ pc[w] = "w_create"
        /\ start_result[w] = "RUNNING_MODAL"
        /\ AnyNonZero(fft_data)
        /\ scene_bins = Zeros
        /\ scene_ts = 0

\* C19: the vector lock is never held across I/O and is always released.
\* A worker holding it is inside its publish step, the main thread holding
\* it is inside a snapshot; the holder never has to wait for anything (its
\* next step is enabled), and each of its steps either releases the lock
\* or moves the smoothing loop on by one bin.
LockHeldBriefly ==
    /\ [](/\ \A w \in Workers :
               lock = w => /\ pc[w] \in {"w_smooth", "w_unlock"}
                           /\ ENABLED (WorkerSmooth(w) \/ WorkerRelease(w))
          /\ lock = Main => /\ pc[Main] \in {"m_copied", "p_copied"}
                            /\ ENABLED (ModalPublish \/ PanelShow)
          /\ \A w \in Workers : pc[w] \in {"w_smooth", "w_unlock"} => lock = w
          /\ pc[Main] \in {"m_copied", "p_copied"} => lock = Main)
    /\ [][/\ \A w \in Workers :
               /\ (lock = w /\ pc'[w] # pc[w])
                     => (lock' = Free \/ (lock' = w /\ pc'[w] = "w_unlock"))
               /\ (lock = w /\ idx'[w] # idx[w])
                     => ((idx'[w] = idx[w] + 1 /\ idx'[w] <= NBins)
                            \/ pc'[w] = "w_unlock")
          /\ (lock = Main /\ pc'[Main] # pc[Main]) => lock' = Free]_vars

LockContended ==
    \E w \in Workers :
        /\ lock = w
        /\ pc[w] = "w_smooth"
        /\ idx[w] = NBins
        /\ \E v \in Workers : v # w /\ pc[v] = "w_lock"
        /\ pc[Main] = "idle" /\ running

\* C20: no resource is orphaned: every PyAudio instance that is live is the
\* one _pa refers to and every stream that is open is the one _stream
\* refers to, so that _cleanup_audio can still release it.
NoResourceOrphaned ==
    \A w \in Workers :
        /\ PaLive(w) => pa = w
        /\ StreamOpen(w) => stream = w

====
